---- MODULE Spec2Model ----
(***************************************************************************)
(* OptimizedController (src/src/OptimizedController.tsx): a component that *)
(* binds one named field of a react-hook-form provider with useController  *)
(* and returns useMemo(() => render(field), [value, disabled, render]).    *)
(*                                                                         *)
(* One component instance is modelled.  The provider (react-hook-form) is  *)
(* the environment: it owns the state of every named field and changes it  *)
(* at will; the parent supplies the props of every pass.                   *)
(***************************************************************************)
EXTENDS Naturals, Sequences, FiniteSets

VARIABLES
    fields,     \* provider: field name -> FieldState
    memo,       \* the useMemo cell of the instance: NoMemo or [deps, node]
    thrown,     \* a pass that threw: what the provider raised, what the pass threw
    history,    \* per pass that returned: its props, what useController read,
                \* the element returned, the render invocations so far
    calls,      \* the invocations of the render function, in order
    sent,       \* the calls the provider's change entry point received
    left        \* passes and provider updates still to come

vars == <<fields, memo, thrown, history, calls, sent, left>>

----------------------------------------------------------------------------
(* Bounds *)

MaxPasses == 2
MaxUpdates == 2
OneFieldPasses == 4
OneFieldUpdates == 3

----------------------------------------------------------------------------
(* Domains *)

Names == {"a", "b"}
Values == {"", "abc"}
Renders == {"r1", "r2"}
ProviderErrors == {"NoContext", "InvalidName"}
NoError == "none"
NoMemo == [deps |-> <<>>]
NoThrow == [raised |-> NoError, error |-> NoError]

FieldState ==
    [value : Values, disabled : BOOLEAN, touched : BOOLEAN,
     dirty : BOOLEAN, error : BOOLEAN]

DefaultState ==
    [value |-> "", disabled |-> FALSE, touched |-> FALSE,
     dirty |-> FALSE, error |-> FALSE]

Props == [name : Names, render : Renders]

Last(s) == s[Len(s)]

----------------------------------------------------------------------------
(* The provider's binding entry point, as the component uses it *)

\* The `field` object of useController for field n in state s: the value and
\* the disabled flag, the field name, and the handlers and ref bound to n.
FieldView(n, s) ==
    [name     |-> n,
     value    |-> s.value,
     disabled |-> s.disabled,
     onChange |-> <<"onChange", n>>,
     onBlur   |-> <<"onBlur", n>>,
     ref      |-> <<"ref", n>>]

\* useController(props): throws the provider's failure, or returns the field.
UseController(p, fault) ==
    IF fault # NoError
    THEN [error |-> fault, field |-> FieldView(p.name, DefaultState)]
    ELSE [error |-> NoError, field |-> FieldView(p.name, fields[p.name])]

\* The provider's change entry point, reached through handler h.
ProviderOnChange(h, v) ==
    [fields EXCEPT ![h[2]] = [@ EXCEPT !.value = v, !.dirty = TRUE]]

----------------------------------------------------------------------------
(* The component *)

\* render(field): the element produced; id tells one produced element from
\* another (referential identity).
Render(r, field, id) == [id |-> id, by |-> r, view |-> field]

\* Faulty variants of Deps: a dependency left out of the list.
DepsValueOnly(field, render) == <<field.value, render>>
DepsDisabledOnly(field, render) == <<field.disabled, render>>
DepsNoRender(field, render) == <<field.value, field.disabled>>

\* The dependency list of the useMemo call.
Deps(field, render) == <<field.value, field.disabled, render>>

\* Faulty variants of the memo: one that never keeps a result, one that never
\* drops it, one that compares well and still stores the new element.
DepsChangedAlways(cell, deps) == TRUE
DepsChangedNever(cell, deps) == cell = NoMemo
UseMemoFresh(cell, node, deps) == [deps |-> deps, node |-> node]

\* useMemo: the factory runs on the first call and when a dependency differs.
DepsChanged(cell, deps) == cell = NoMemo \/ cell.deps # deps

UseMemo(cell, node, deps) ==
    IF DepsChanged(cell, deps) THEN [deps |-> deps, node |-> node] ELSE cell

\* The instance is followed while it is mounted: a pass that throws ends it.
Mounted == thrown = NoThrow

\* Faulty variant of PassThrows: the component catches the provider's failure
\* and throws one of its own.
PassThrowsWrapped(p, fault) ==
    /\ Mounted
    /\ UseController(p, fault).error # NoError
    /\ thrown' = [raised |-> fault, error |-> "AdapterError"]
    /\ UNCHANGED <<fields, memo, history, calls, sent, left>>

\* A pass in which useController throws: nothing after line 63 runs.
PassThrows(p, fault) ==
    LET r == UseController(p, fault) IN
    /\ Mounted
    /\ r.error # NoError
    /\ thrown' = [raised |-> fault, error |-> r.error]
    /\ UNCHANGED <<fields, memo, history, calls, sent, left>>

\* Faulty variant of PassReturns: the pass calls field.onBlur while rendering,
\* which marks the field touched.
PassReturnsTouching(p, fault) ==
    LET r == UseController(p, fault)
        field == r.field
        deps == <<field.value, field.disabled, p.render>>
        fresh == memo = NoMemo \/ memo.deps # deps
        node == [id |-> Len(calls) + 1, by |-> p.render, view |-> field]
    IN  /\ Mounted
        /\ r.error = NoError
        /\ left.passes > 0
        /\ left' = [left EXCEPT !.passes = @ - 1]
        /\ memo' = IF fresh THEN [deps |-> deps, node |-> node] ELSE memo
        /\ calls' = IF fresh
                    THEN Append(calls, [render |-> p.render, view |-> field])
                    ELSE calls
        /\ history' = Append(history,
                        [name |-> p.name, render |-> p.render,
                         state |-> fields[p.name],
                         node |-> memo'.node, ncalls |-> Len(calls')])
        /\ fields' = [fields EXCEPT ![p.name].touched = TRUE]
        /\ UNCHANGED <<thrown, sent>>

\* A pass that returns an element.
PassReturns(p, fault) ==
    LET r == UseController(p, fault)
        field == r.field
        deps == Deps(field, p.render)
    IN  /\ Mounted
        /\ r.error = NoError
        /\ left.passes > 0
        /\ left' = [left EXCEPT !.passes = @ - 1]
        /\ memo' = UseMemo(memo, Render(p.render, field, Len(calls) + 1), deps)
        /\ calls' = IF DepsChanged(memo, deps)
                    THEN Append(calls, [render |-> p.render, view |-> field])
                    ELSE calls
        /\ history' = Append(history,
                        [name |-> p.name, render |-> p.render,
                         state |-> fields[p.name],
                         node |-> memo'.node, ncalls |-> Len(calls')])
        /\ UNCHANGED <<fields, thrown, sent>>

Pass(p, fault) == PassThrows(p, fault) \/ PassReturns(p, fault)

\* An event on the rendered element calls the onChange it was given.
CallChange(v) ==
    /\ Mounted
    /\ memo # NoMemo
    /\ left.updates > 0
    /\ LET h == memo.node.view.onChange IN
        /\ fields' = ProviderOnChange(h, v)
        /\ sent' = Append(sent, [name |-> h[2], value |-> v])
    /\ left' = [left EXCEPT !.updates = @ - 1]
    /\ UNCHANGED <<memo, thrown, history, calls>>

----------------------------------------------------------------------------
(* The provider's own updates *)

ProviderUpdate(n, s) ==
    /\ Mounted
    /\ left.updates > 0
    /\ s # fields[n]
    /\ fields' = [fields EXCEPT ![n] = s]
    /\ left' = [left EXCEPT !.updates = @ - 1]
    /\ UNCHANGED <<memo, thrown, history, calls, sent>>

SetValue(n, v) == ProviderUpdate(n, [fields[n] EXCEPT !.value = v])
SetDisabled(n, d) == ProviderUpdate(n, [fields[n] EXCEPT !.disabled = d])
SetTouched(n, b) == ProviderUpdate(n, [fields[n] EXCEPT !.touched = b])
SetDirty(n, b) == ProviderUpdate(n, [fields[n] EXCEPT !.dirty = b])
SetError(n, b) == ProviderUpdate(n, [fields[n] EXCEPT !.error = b])

----------------------------------------------------------------------------

Start(passes, updates) ==
    /\ fields = [n \in Names |-> DefaultState]
    /\ memo = NoMemo
    /\ thrown = NoThrow
    /\ history = <<>>
    /\ calls = <<>>
    /\ sent = <<>>
    /\ left = [passes |-> passes, updates |-> updates]

Init == Start(MaxPasses, MaxUpdates)

Next ==
    \/ \E p \in Props, fault \in ProviderErrors \cup {NoError} : Pass(p, fault)
    \/ \E v \in Values : CallChange(v)
    \/ \E n \in Names, v \in Values : SetValue(n, v)
    \/ \E n \in Names, d \in BOOLEAN : SetDisabled(n, d)
    \/ \E n \in Names, b \in BOOLEAN : SetTouched(n, b)
    \/ \E n \in Names, b \in BOOLEAN : SetDirty(n, b)
    \/ \E n \in Names, b \in BOOLEAN : SetError(n, b)

Spec == Init /\ [][Next]_vars

\* One field, no provider failure, more passes: the field "a" alone is bound
\* and updated, and the parent may change the render function.
InitOneField == Start(OneFieldPasses, OneFieldUpdates)

NextOneField ==
    \/ \E r \in Renders : PassReturns([name |-> "a", render |-> r], NoError)
    \/ \E v \in Values : SetValue("a", v)
    \/ \E d \in BOOLEAN : SetDisabled("a", d)
    \/ \E b \in BOOLEAN : SetTouched("a", b)
    \/ \E b \in BOOLEAN : SetDirty("a", b)
    \/ \E b \in BOOLEAN : SetError("a", b)

SpecOneField == InitOneField /\ [][NextOneField]_vars

----------------------------------------------------------------------------
(* Properties.  history[i] is the i-th pass that returned; the render       *)
(* invocations of pass i are those numbered above history[i-1].ncalls up    *)
(* to history[i].ncalls.                                                    *)

Pair(s) == <<s.value, s.disabled>>
Key(e) == <<e.state.value, e.state.disabled, e.render>>
Later == 2..Len(history)

\* s without the elements that equal their predecessor.
RECURSIVE Collapse(_)
Collapse(s) ==
    IF Len(s) <= 1 THEN s
    ELSE LET r == Collapse(SubSeq(s, 1, Len(s) - 1))
         IN  IF s[Len(s)] = s[Len(s) - 1] THEN r ELSE Append(r, s[Len(s)])

EmittedPairs == [i \in 1..Len(history) |-> Pair(history[i].state)]
EmittedKeys == [i \in 1..Len(history) |-> Key(history[i])]
CallPairs == [i \in 1..Len(calls) |-> Pair(calls[i].view)]
CallKeys ==
    [i \in 1..Len(calls) |->
        <<calls[i].view.value, calls[i].view.disabled, calls[i].render>>]

\* C1: a pass that the provider triggers (same props as the pass before) after
\* an update that left value and disabled of the bound field as they were and
\* changed another attribute (touched, dirty, error) invokes the render
\* function zero times and returns the element the pass before returned.
C1_OtherAttributesDoNotRender ==
    \A i \in Later :
        LET e == history[i]
            d == history[i - 1]
        IN  ( /\ e.name = d.name
              /\ e.render = d.render
              /\ Pair(e.state) = Pair(d.state)
              /\ e.state # d.state )
            => /\ e.ncalls = d.ncalls
               /\ e.node = d.node

C1_Witness ==
    \E i \in Later :
        /\ history[i].name = history[i - 1].name
        /\ history[i].render = history[i - 1].render
        /\ Pair(history[i].state) = Pair(history[i - 1].state)
        /\ history[i].state.touched # history[i - 1].state.touched
        /\ history[i].ncalls = history[i - 1].ncalls
        /\ history[i].ncalls = 1

\* C2: a pass that reads a value or a disabled flag other than the pass before
\* invokes the render function exactly once, with a view that carries the
\* value and the flag just read, and the element it returns (the cached one)
\* is the result of that invocation.
C2_ChangeRendersOnce ==
    \A i \in Later :
        LET e == history[i]
            d == history[i - 1]
        IN  Pair(e.state) # Pair(d.state)
            => /\ e.ncalls = d.ncalls + 1
               /\ Pair(calls[e.ncalls].view) = Pair(e.state)
               /\ e.node.id = e.ncalls
               /\ e.node.view = calls[e.ncalls].view
               /\ (i = Len(history) => memo.node = e.node)

C2_Witness ==
    /\ Len(history) = 2
    /\ history[1].state.disabled = FALSE
    /\ history[2].state.disabled = TRUE
    /\ history[1].state.value = history[2].state.value
    /\ Len(calls) = 2
    /\ calls[2].view.disabled = TRUE
    /\ memo.node.id = 2

\* C3 as stated: a pass that reads the same value and disabled flag as the
\* pass before invokes nothing and returns the same element, whatever caused
\* the pass.
C3_SamePairSameNode ==
    \A i \in Later :
        Pair(history[i].state) = Pair(history[i - 1].state)
        => /\ history[i].ncalls = history[i - 1].ncalls
           /\ history[i].node = history[i - 1].node

\* C3 amended: a pass that reads the same value and disabled flag as the pass
\* before and is given the same render function invokes nothing and returns
\* the same element.
C3_SameKeySameNode ==
    \A i \in Later :
        Key(history[i]) = Key(history[i - 1])
        => /\ history[i].ncalls = history[i - 1].ncalls
           /\ history[i].node = history[i - 1].node

C3_Witness ==
    /\ Len(history) = 2
    /\ history[2].state = history[1].state
    /\ history[2].render = history[1].render
    /\ history[2].name # history[1].name
    /\ history[2].node = history[1].node
    /\ Len(calls) = 1

\* C4: after every pass, the view from which the returned element was produced
\* is the provider's current view of the bound field: value, disabled,
\* change handler, blur handler, ref and name.
C4_ViewIsCurrent ==
    \A i \in 1..Len(history) :
        history[i].node.view = FieldView(history[i].name, history[i].state)

\* C5: a call of the change handler held by the returned element reaches the
\* provider once, for the field the component is bound to, and changes
\* nothing of the component.
C5_ChangeReachesBoundField ==
    [][sent' # sent =>
        /\ Len(sent') = Len(sent) + 1
        /\ Last(sent').name = Last(history).name
        /\ fields' = [fields EXCEPT ![Last(history).name] =
                        [@ EXCEPT !.value = Last(sent').value, !.dirty = TRUE]]
        /\ UNCHANGED <<memo, history, calls, thrown>>]_vars

\* C6 as stated: the (value, disabled) pairs of the render invocations are the
\* pairs the passes read, consecutive duplicates collapsed.
C6_CallPairsAreCollapsedPairs == CallPairs = Collapse(EmittedPairs)

\* C6 amended: the (value, disabled, render function) triples of the render
\* invocations are the triples of the passes, consecutive duplicates collapsed:
\* a pair is invoked again only when the render function changed, and none is
\* reordered or skipped.
C6_CallKeysAreCollapsedKeys ==
    /\ CallKeys = Collapse(EmittedKeys)
    /\ Collapse(CallPairs) = Collapse(EmittedPairs)

C6_Witness ==
    /\ Len(history) = 4
    /\ Key(history[2]) = Key(history[1])
    /\ Pair(history[3].state) = Pair(history[2].state)
    /\ history[3].render # history[2].render
    /\ Pair(history[4].state) # Pair(history[3].state)
    /\ Len(calls) = 3

\* The scenario of the specification: value "" and not disabled at mount, then
\* touched, then value "abc", then disabled, one pass after each, the render
\* function the same throughout.
Scenario ==
    /\ Len(history) = 4
    /\ \A i \in 1..4 : history[i].name = "a" /\ history[i].render = history[1].render
    /\ history[1].state = DefaultState
    /\ history[2].state = [DefaultState EXCEPT !.touched = TRUE]
    /\ history[3].state = [history[2].state EXCEPT !.value = "abc"]
    /\ history[4].state = [history[3].state EXCEPT !.disabled = TRUE]

\* C7: the first pass invokes the render function exactly once, with the value
\* and disabled flag the provider holds then; over the scenario there are
\* exactly three invocations: ("", FALSE), ("abc", FALSE), ("abc", TRUE).
C7_MountAndScenario ==
    /\ Len(history) >= 1 =>
        /\ history[1].ncalls = 1
        /\ Pair(calls[1].view) = Pair(history[1].state)
    /\ Scenario =>
        CallPairs = << <<"", FALSE>>, <<"abc", FALSE>>, <<"abc", TRUE>> >>

C7_Witness == Scenario /\ Len(calls) = 3 /\ fields["a"].touched

\* C8: a pass in which the provider's binding call fails throws what the
\* provider raised, invokes no render function and leaves the memo cell, and
\* everything else, as it was.
C8_ProviderFailurePropagates ==
    [][thrown' # thrown =>
        /\ thrown'.raised \in ProviderErrors
        /\ thrown'.error = thrown'.raised
        /\ UNCHANGED <<memo, calls, history, fields, sent>>]_vars

C8_Witness ==
    /\ thrown.error = "NoContext"
    /\ memo # NoMemo
    /\ Len(calls) = 1

\* C9: a pass, whether it throws, recomputes or returns the cached element,
\* leaves every attribute of every field of the provider as it was.
C9_PassLeavesFieldState ==
    [][(history' # history \/ thrown' # thrown \/ memo' # memo \/ calls' # calls)
        => fields' = fields]_vars

C9_Witness ==
    /\ Len(history) = 2
    /\ history[1].ncalls = 1
    /\ history[2].ncalls = 1
    /\ history[2].state.touched
    /\ history[2].state.error
    /\ fields[history[2].name] = history[2].state

\* C10: the element a pass returns was produced by the render function given
\* to that pass; a pass given another render function than the pass before
\* invokes it once even when value and disabled are the same, and a pass with
\* the same value, disabled flag and render function invokes nothing.
C10_KeyIsValueDisabledRender ==
    \A i \in 1..Len(history) :
        /\ history[i].node.by = history[i].render
        /\ i > 1 =>
            /\ history[i].render # history[i - 1].render
                => history[i].ncalls = history[i - 1].ncalls + 1
            /\ Key(history[i]) = Key(history[i - 1])
                => history[i].ncalls = history[i - 1].ncalls

C10_Witness ==
    /\ Len(history) = 2
    /\ history[2].state = history[1].state
    /\ history[2].name = history[1].name
    /\ history[2].render # history[1].render
    /\ Len(calls) = 2
    /\ memo.node.by = history[2].render

====
